---- MODULE Spec2Model ----
(***************************************************************************)
(* Roster reconciliation engine of the clan administration bot             *)
(* (admin-bot/clan_sync_logic.py, run_sync) and its two callers in         *)
(* admin-bot/bot.py (/syncclan and the scheduled sync).                    *)
(*                                                                         *)
(* The store (Supabase tables) is the persistent state; every local of     *)
(* run_sync that survives from one step to the next is a variable named    *)
(* as in the source.  A store write that raises is a nondeterministic      *)
(* outcome of the step that issues it, limited by MaxFaults per behaviour. *)
(***************************************************************************)
EXTENDS Integers, Sequences, FiniteSets, TLC

\* ------------------------------------------------------------------ bounds
MaxFaults == 1      \* store writes / requests that may raise in one behaviour
MaxRuns == 1        \* calls of run_sync in one behaviour
NBulk == 16         \* ordinary members of the populated store (enough to pass the threshold)
MaxReruns == 1      \* further scheduled live calls, in the specification of successive runs
MaxPlayers == 100   \* players that need a snapshot request, in the specification of the request loop
MaxSlow == 1        \* requests of one loop that take noticeable time
MaxLen == 3         \* characters of a string handed to normalize_string on its own

\* ------------------------------------------------------- program constants
MISMATCH_THRESHOLD == 15
SapphireRankId == 10
EmeraldRankId == 11
None == -1
RequestQuota == 90      \* if request_count >= 90
WindowTenths == 600     \* if elapsed < 60
SleepTenths == 601      \* wait_time = 60.1 - elapsed

\* ----------------------------------------------------------------- strings
\* A string is a sequence of one-character strings.
UpperCase == <<"A","B","C","D","E","F","G","H","I","J","K","L","M",
               "N","O","P","Q","R","S","T","U","V","W","X","Y","Z">>
LowerCase == <<"a","b","c","d","e","f","g","h","i","j","k","l","m",
               "n","o","p","q","r","s","t","u","v","w","x","y","z">>
Separators == {" ", "_", "-", "."}

UpperToLower == [c \in {UpperCase[i] : i \in 1..26} |->
                    LowerCase[CHOOSE i \in 1..26 : UpperCase[i] = c]]

\* str.lower() on one character
lower(c) == IF c \in DOMAIN UpperToLower THEN UpperToLower[c] ELSE c

RECURSIVE LowerNoSep(_)
LowerNoSep(s) ==
    IF s = <<>> THEN <<>>
    ELSE IF lower(Head(s)) \in Separators THEN LowerNoSep(Tail(s))
    ELSE <<lower(Head(s))>> \o LowerNoSep(Tail(s))

\* A variant of normalize_string that forgets to lower-case.
RECURSIVE NoSepOnly(_)
NoSepOnly(s) ==
    IF s = <<>> THEN <<>>
    ELSE IF Head(s) \in Separators THEN NoSepOnly(Tail(s))
    ELSE <<Head(s)>> \o NoSepOnly(Tail(s))

normalize_string(s) == IF s = <<>> THEN <<>> ELSE LowerNoSep(s)

\* ------------------------------------------------------------ generic help
\* The subsets of S of at most k elements.
RECURSIVE SubsetsUpTo(_, _)
SubsetsUpTo(S, k) ==
    IF k <= 0 THEN {{}}
    ELSE LET smaller == SubsetsUpTo(S, k - 1)
         IN smaller \cup {T \cup {x} : T \in smaller, x \in S}

RECURSIVE SetToSeq(_)
SetToSeq(S) ==
    IF S = {} THEN <<>>
    ELSE LET x == CHOOSE y \in S : TRUE IN <<x>> \o SetToSeq(S \ {x})

Range(s) == {s[i] : i \in 1..Len(s)}
MaxOf(S) == CHOOSE x \in S : \A y \in S : y <= x
Remove(f, k) == [x \in (DOMAIN f) \ {k} |-> f[x]]
Put(f, k, v) == [x \in (DOMAIN f) \cup {k} |-> IF x = k THEN v ELSE f[x]]
Get(f, k, default) == IF k \in DOMAIN f THEN f[k] ELSE default
EmptyMap == [x \in {} |-> None]
\* Python truthiness of a dict-or-None result: None (a failed fetch, kept as the
\* empty map) and the empty dict are both falsy.
Truthy(m) == DOMAIN m /= {}

\* ------------------------------------------------------- names in the model
Digits == <<"0","1","2","3","4","5","6","7","8","9">>
Al == <<"A","l">>
AlSpaced == <<"A"," ","l">>      \* normalizes like Al
Bo == <<"B","o">>
BoLower == <<"b","o">>           \* normalizes like Bo
Cy == <<"C","y">>
Di == <<"D","i">>
BulkName(i) == <<"M", Digits[(i \div 10) + 1], Digits[(i % 10) + 1]>>

RankX == <<"X">>
RankY == <<"Y">>
LabelX == <<"x">>
LabelY == <<"y">>
LabelZ == <<"z">>                \* a label no local rank carries

\* ------------------------------------------------------------------- state
VARIABLES
    \* the store (Supabase tables)
    ranks,              \* id -> [name, rank_type]
    members,            \* id -> [status, current_rank_id]
    member_rsns,        \* rows [rsn, member_id, is_primary], in insertion order
    rank_history,       \* rows [member_id, previous_rank_id, new_rank_id]
    wom_snapshots,      \* rows [member_id, total_xp]
    group_snapshots,    \* number of rows
    \* the external service (WOM)
    memberships,        \* the group's roster: rows [username, role, exp]
    name_changes,       \* the group's rename feed: rows [oldName, newName]
    \* the call of run_sync in progress (or the last one)
    pc, dry_run, force_run, result, report_lines,
    ranks_map_normalized, ranks_map_by_id, db_rsn_map_normalized,
    db_member_data, all_db_members, wom_members, fetch_error,
    change_idx,
    snapshots_payload, new_normalized_rsns, departed_member_ids,
    new_members_payload, returning_members_payload,
    report_rank_mismatches, report_auto_rank_updates,
    \* observation
    store0,             \* the store when the current call began
    writes,             \* store write statements issued by the current call
    fetches,            \* fetches (store or WOM) issued by the current call
    faults,             \* raised writes / requests so far
    runs,               \* calls of run_sync so far
    \* the request loop of fetch_player_snapshots
    limiter,            \* [todo, request_count, start_time, now, sent, slow]
    \* normalize_string called on its own
    norm,               \* [arg, step, once, twice]
    \* calls of run_sync started by the bot through asyncio.to_thread
    threads             \* handler -> the locals of its call of run_sync

storeVars == <<ranks, members, member_rsns, rank_history, wom_snapshots, group_snapshots>>
envVars == <<memberships, name_changes>>
fetchedVars == <<ranks_map_normalized, ranks_map_by_id, db_rsn_map_normalized,
                 db_member_data, all_db_members, wom_members, fetch_error>>
diffVars == <<snapshots_payload, new_normalized_rsns, departed_member_ids,
              new_members_payload, returning_members_payload,
              report_rank_mismatches, report_auto_rank_updates>>
vars == <<storeVars, envVars, pc, dry_run, force_run, result, report_lines,
          fetchedVars, change_idx, diffVars, store0, writes, fetches, faults, runs,
          limiter, norm, threads>>

Store == [ranks |-> ranks, members |-> members, member_rsns |-> member_rsns,
          rank_history |-> rank_history, wom_snapshots |-> wom_snapshots,
          group_snapshots |-> group_snapshots]

Line(t, n) == [t |-> t, n |-> n]
HasLine(t) == \E i \in 1..Len(report_lines) : report_lines[i].t = t

\* ----------------------------------------------------------- initial stores
Rsn(name, m, p) == [rsn |-> name, member_id |-> m, is_primary |-> p]
Member(st, r) == [status |-> st, current_rank_id |-> r]

\* Two ranks; member 1 is Active with primary Al and alt Bo, member 2 is
\* Inactive with primary Cy, members 3..2+nb are Active ordinary members whose
\* last persisted experience is 100.
PopulatedStore(nb, r1, r2) ==
    [ranks |-> (r1 :> [name |-> RankX, rank_type |-> "Clan"]) @@
               (r2 :> [name |-> RankY, rank_type |-> "Clan"]),
     members |-> [i \in 1..(2 + nb) |->
                    IF i = 2 THEN Member("Inactive", r1) ELSE Member("Active", r1)],
     member_rsns |-> <<Rsn(Al, 1, TRUE), Rsn(Bo, 1, FALSE), Rsn(Cy, 2, TRUE)>> \o
                     [i \in 1..nb |-> Rsn(BulkName(i), 2 + i, TRUE)],
     rank_history |-> <<>>,
     wom_snapshots |-> [i \in 1..nb |-> [member_id |-> 2 + i, total_xp |-> 100]],
     group_snapshots |-> 0]

EmptyStore ==
    [ranks |-> (SapphireRankId :> [name |-> RankX, rank_type |-> "Clan"]) @@
               (EmeraldRankId :> [name |-> RankY, rank_type |-> "Clan"]),
     members |-> <<>>, member_rsns |-> <<>>, rank_history |-> <<>>,
     wom_snapshots |-> <<>>, group_snapshots |-> 0]

MainStore == PopulatedStore(0, SapphireRankId, EmeraldRankId)

\* A store without rank ids 10 and 11.
LowRankStore == PopulatedStore(0, 1, 2)

BulkStore == PopulatedStore(NBulk, SapphireRankId, EmeraldRankId)

\* ------------------------------------------------------ external service data
Entry(u, role, exp) == [username |-> u, role |-> role, exp |-> exp]
Change(o, n) == [oldName |-> o, newName |-> n]

\* The roster lists every ordinary member of the store, the first k of them
\* with a rank label that differs from the stored rank.
BulkEntries(nb, k) ==
    [i \in 1..nb |-> Entry(BulkName(i), IF i <= k THEN LabelY ELSE LabelX, 100)]

RosterAlCy == <<Entry(Al, LabelX, 50), Entry(Cy, LabelY, None)>>
RosterBo == <<Entry(Bo, LabelY, 50)>>            \* only member 1's alt
RosterDiAl == <<Entry(Di, LabelZ, 50), Entry(Al, LabelY, None)>>
RosterDi == <<Entry(Di, LabelX, 50)>>
RosterAlDi == <<Entry(Al, LabelY, 50), Entry(Di, LabelY, 50)>>   \* member 1's main and alt
RosterAlCyZ == <<Entry(Al, LabelZ, 50), Entry(Cy, LabelZ, None)>>  \* a label without a rank
RosterAlY == <<Entry(Al, LabelY, 50)>>          \* member 1's first name, another rank

Feeds ==
    { <<>>,
      <<Change(Al, Di)>>,
      <<Change(Al, Di), Change(Di, Al)>>,
      <<Change(Bo, BoLower)>>,
      <<Change(Di, Cy), Change(Al, AlSpaced)>>,
      <<Change(Al, Bo)>>,
      <<Change(Bo, Cy)>> }

\* With the bulk store the roster's mismatch count is k, or k + 1 when Al's
\* label differs too: exactly MISMATCH_THRESHOLD, and one more in two ways.
BulkRosters ==
    { RosterAlCy \o BulkEntries(NBulk, MISMATCH_THRESHOLD),
      RosterAlCy \o BulkEntries(NBulk, MISMATCH_THRESHOLD + 1),
      RosterDiAl \o BulkEntries(NBulk, MISMATCH_THRESHOLD) }

World(s, r, f) == [store |-> s, roster |-> r, feed |-> f]

\* The worlds a behaviour starts in: a store and the external service's data.
Worlds ==
    {World(MainStore, RosterAlCy, f) : f \in Feeds}
    \cup
    {World(MainStore, r, f) :
        r \in {RosterBo, RosterDiAl, RosterDi}, f \in {<<>>, <<Change(Al, Di)>>}}
    \cup
    {World(MainStore, RosterDiAl, <<Change(Al, Di), Change(Di, Al)>>),
     World(EmptyStore, RosterDi, <<>>),
     World(EmptyStore, RosterDiAl, <<Change(Al, Di)>>),
     World(LowRankStore, RosterAlCy, <<>>),
     World(LowRankStore, RosterDiAl, <<Change(Al, Di)>>),
     World(MainStore, RosterAlY, <<Change(Bo, Di)>>),
     World(MainStore, RosterAlDi, <<Change(Bo, Di)>>),
     World(MainStore, RosterAlCyZ, <<>>)}
    \cup
    {World(BulkStore, r, <<>>) : r \in BulkRosters \cup {RosterBo}}

\* fetch_player_snapshots before its loop: request_count = 0 and
\* start_time = time.time(), with todo players that will need a request.
\* Times are in tenths of a second since the loop began; sent maps an instant
\* to the number of requests sent at it.
LimiterAt(todo) ==
    [todo |-> todo, request_count |-> 0, start_time |-> 0, now |-> 0,
     sent |-> EmptyMap, slow |-> 0]

\* The two handlers of the bot that call run_sync in a worker thread.
ThreadIds == {"scheduled", "manual"}

\* The locals of a call that has not begun.
ThreadIdle ==
    [pc |-> "idle", rmn |-> EmptyMap, rbi |-> EmptyMap, map |-> EmptyMap,
     dmd |-> EmptyMap, adm |-> EmptyMap, wm |-> EmptyMap,
     snapshots_payload |-> <<>>, departed_member_ids |-> {},
     new_members_payload |-> <<>>, returning_members_payload |-> <<>>]

\* An argument of normalize_string: None, or a string.
NoneArg == [none |-> TRUE, s |-> <<>>]
StrArg(s) == [none |-> FALSE, s |-> s]

\* normalize_string(arg) about to be evaluated.
NormCall(arg) == [arg |-> arg, step |-> 0, once |-> <<>>, twice |-> <<>>]

\* The state before a call of run_sync, in world w; todo is the number of
\* players the request loop has before it, arg the argument of
\* normalize_string, when these are looked at on their own.
InitCall(w, todo, arg) ==
    /\ ranks = w.store.ranks
    /\ members = w.store.members
    /\ member_rsns = w.store.member_rsns
    /\ rank_history = w.store.rank_history
    /\ wom_snapshots = w.store.wom_snapshots
    /\ group_snapshots = w.store.group_snapshots
    /\ store0 = w.store
    /\ memberships = w.roster
    /\ name_changes = w.feed
    /\ pc = "idle"
    /\ dry_run = TRUE
    /\ force_run = FALSE
    /\ result = "none"
    /\ report_lines = <<>>
    /\ ranks_map_normalized = EmptyMap
    /\ ranks_map_by_id = EmptyMap
    /\ db_rsn_map_normalized = EmptyMap
    /\ db_member_data = EmptyMap
    /\ all_db_members = EmptyMap
    /\ wom_members = EmptyMap
    /\ fetch_error = {}
    /\ change_idx = 0
    /\ snapshots_payload = <<>>
    /\ new_normalized_rsns = {}
    /\ departed_member_ids = {}
    /\ new_members_payload = <<>>
    /\ returning_members_payload = <<>>
    /\ report_rank_mismatches = <<>>
    /\ report_auto_rank_updates = <<>>
    /\ writes = 0
    /\ fetches = 0
    /\ faults = 0
    /\ runs = 0
    /\ limiter = LimiterAt(todo)
    /\ norm = NormCall(arg)
    /\ threads = [t \in ThreadIds |-> ThreadIdle]

Init == \E w \in Worlds : InitCall(w, 0, NoneArg)

\* ------------------------------------------------------------ store reads
\* for rank in ranks_res.data: ranks_map_normalized[normalize(name)] = id
\* (rows in id order; a later row overwrites an earlier one of the same key).
RECURSIVE RanksMapFrom(_, _, _)
RanksMapFrom(rk, ids, acc) ==
    IF ids = <<>> THEN acc
    ELSE RanksMapFrom(rk, Tail(ids),
                      Put(acc, normalize_string(rk[Head(ids)].name), Head(ids)))

RECURSIVE Ascending(_)
Ascending(S) ==
    IF S = {} THEN <<>>
    ELSE LET m == CHOOSE x \in S : \A y \in S : x <= y
         IN <<m>> \o Ascending(S \ {m})

RanksMapNormalized(rk) == RanksMapFrom(rk, Ascending(DOMAIN rk), EmptyMap)

RanksMapById(rk) == [i \in DOMAIN rk |-> rk[i].name]

\* for item in rsns_data: db_rsn_map_normalized[normalize(rsn)] = {...}
RECURSIVE RsnMapFrom(_, _, _)
RsnMapFrom(rows, i, acc) ==
    IF i > Len(rows) THEN acc
    ELSE RsnMapFrom(rows, i + 1,
            Put(acc, normalize_string(rows[i].rsn),
                [member_id |-> rows[i].member_id,
                 is_primary |-> rows[i].is_primary,
                 original_rsn |-> rows[i].rsn]))

RsnMapNormalized(rows) == RsnMapFrom(rows, 1, EmptyMap)

\* The store's RPC get_active_member_snapshots: every Active member with the
\* experience of its latest snapshot row (None when it has none).
get_active_member_snapshots(mem, snaps) ==
    [id \in {i \in DOMAIN mem : mem[i].status = "Active"} |->
        LET own == {j \in DOMAIN snaps : snaps[j].member_id = id}
        IN [current_rank_id |-> mem[id].current_rank_id,
            latest_db_xp |-> IF own = {} THEN None ELSE snaps[MaxOf(own)].total_xp]]

fetch_db_member_data(mem, snaps) == get_active_member_snapshots(mem, snaps)

fetch_all_db_members(mem) ==
    [id \in DOMAIN mem |->
        [current_rank_id |-> mem[id].current_rank_id, status |-> mem[id].status]]

NoSnapshot == [present |-> FALSE, experience |-> 0]
Snapshot(xp) == [present |-> TRUE, experience |-> xp]

\* for membership in memberships: wom_members[normalize(username)] = {...}
RECURSIVE WomMembersFrom(_, _, _)
WomMembersFrom(ms, i, acc) ==
    IF i > Len(ms) THEN acc
    ELSE WomMembersFrom(ms, i + 1,
            Put(acc, normalize_string(ms[i].username),
                [rsn |-> ms[i].username, rank |-> ms[i].role,
                 stale_exp |-> ms[i].exp, latest_snapshot |-> NoSnapshot]))

fetch_wom_members(ms) == WomMembersFrom(ms, 1, EmptyMap)

\* ------------------------------------------------------------ entry points
ResetLocals ==
    /\ ranks_map_normalized' = EmptyMap
    /\ ranks_map_by_id' = EmptyMap
    /\ db_rsn_map_normalized' = EmptyMap
    /\ db_member_data' = EmptyMap
    /\ all_db_members' = EmptyMap
    /\ wom_members' = EmptyMap
    /\ fetch_error' = {}
    /\ change_idx' = 0
    /\ snapshots_payload' = <<>>
    /\ new_normalized_rsns' = {}
    /\ departed_member_ids' = {}
    /\ new_members_payload' = <<>>
    /\ returning_members_payload' = <<>>
    /\ report_rank_mismatches' = <<>>
    /\ report_auto_rank_updates' = <<>>
    /\ store0' = Store
    /\ writes' = 0
    /\ fetches' = 0

\* run_sync is entered: the report is opened, nothing is fetched yet.
RunSyncEntry(dry, force) ==
    /\ pc = "idle"
    /\ runs < MaxRuns
    /\ runs' = runs + 1
    /\ dry_run' = dry
    /\ force_run' = force
    /\ result' = "none"
    /\ report_lines' = <<Line("start", 0)>> \o
                       (IF force THEN <<Line("force_warning", 0)>> ELSE <<>>)
    /\ pc' = "fetch"
    /\ ResetLocals
    /\ UNCHANGED <<threads, norm, limiter, storeVars, envVars, faults>>

\* The /syncclan command answers force_run with dry_run by an error message.
UsageError ==
    /\ pc = "idle"
    /\ runs < MaxRuns
    /\ runs' = runs + 1
    /\ dry_run' = TRUE
    /\ force_run' = TRUE
    /\ result' = "usage_error"
    /\ report_lines' = <<>>
    /\ pc' = "idle"
    /\ ResetLocals
    /\ UNCHANGED <<threads, norm, limiter, storeVars, envVars, faults>>

sync_clan ==
    \E dry \in BOOLEAN, force \in BOOLEAN :
        IF force /\ dry THEN UsageError ELSE RunSyncEntry(dry, force)

scheduled_clan_sync == RunSyncEntry(FALSE, FALSE)

\* run_sync called as a function, with any two booleans.
run_sync == \E dry \in BOOLEAN, force \in BOOLEAN : RunSyncEntry(dry, force)

\* ------------------------------------------------------- 1. fetch all data
\* A variant that goes on whatever was fetched.
AllFetchedAnyway(wm, rmn, dmd, rsn, adm) == TRUE

AllFetched(wm, rmn, dmd, rsn, adm) ==
    Truthy(wm) /\ Truthy(rmn) /\ Truthy(dmd) /\ Truthy(rsn) /\ Truthy(adm)

FetchSources == {"ranks_rsns", "member_data", "all_members", "wom"}

FetchData ==
    /\ pc = "fetch"
    /\ LET ok_rmn == RanksMapNormalized(ranks)
           ok_rbi == RanksMapById(ranks)
           ok_rsn == RsnMapNormalized(member_rsns)
           ok_dmd == fetch_db_member_data(members, wom_snapshots)
           ok_adm == fetch_all_db_members(members)
           ok_wm == fetch_wom_members(memberships)
       IN \E failed \in {{}} \cup {{f} : f \in FetchSources} :
        LET rmn == IF "ranks_rsns" \in failed THEN EmptyMap ELSE ok_rmn
            rbi == IF "ranks_rsns" \in failed THEN EmptyMap ELSE ok_rbi
            rsn == IF "ranks_rsns" \in failed THEN EmptyMap ELSE ok_rsn
            dmd == IF "member_data" \in failed THEN EmptyMap ELSE ok_dmd
            adm == IF "all_members" \in failed THEN EmptyMap ELSE ok_adm
            wm  == IF "wom" \in failed THEN EmptyMap ELSE ok_wm
        IN /\ fetch_error' = failed
           /\ ranks_map_normalized' = rmn
           /\ ranks_map_by_id' = rbi
           /\ db_rsn_map_normalized' = rsn
           /\ db_member_data' = dmd
           /\ all_db_members' = adm
           /\ wom_members' = wm
           /\ fetches' = fetches + 4
           /\ IF AllFetched(wm, rmn, dmd, rsn, adm)
              THEN /\ pc' = "group_snapshot"
                   /\ UNCHANGED <<report_lines, result>>
              ELSE /\ report_lines' = Append(report_lines, Line("CRITICAL ERROR", 0))
                   /\ result' = "report"
                   /\ pc' = "idle"
    /\ UNCHANGED <<threads, norm, limiter, storeVars, envVars, dry_run, force_run, change_idx, diffVars,
                   store0, writes, faults, runs>>

\* ----------------------------------------------- 1.5 insert group snapshot
\* A variant that forgets the dry-run guard.
InsertsGroupSnapshotAlways(group_snapshot_data, dry) == group_snapshot_data

\* if group_snapshot_data: if not dry_run: insert
InsertsGroupSnapshot(group_snapshot_data, dry) == group_snapshot_data /\ ~dry

InsertGroupSnapshot ==
    /\ pc = "group_snapshot"
    /\ IF ~InsertsGroupSnapshot(TRUE, dry_run)    \* the fetched group JSON is a non-empty dict
       THEN UNCHANGED <<group_snapshots, writes, faults, report_lines>>
       ELSE /\ writes' = writes + 1
            /\ \/ /\ group_snapshots' = group_snapshots + 1
                  /\ UNCHANGED <<faults, report_lines>>
               \/ /\ faults < MaxFaults
                  /\ faults' = faults + 1
                  /\ report_lines' = Append(report_lines, Line("warning_group_snapshot", 0))
                  /\ UNCHANGED group_snapshots
    /\ pc' = "name_changes"
    /\ UNCHANGED <<threads, norm, limiter, ranks, members, member_rsns, rank_history, wom_snapshots, envVars,
                   dry_run, force_run, result, fetchedVars, change_idx, diffVars,
                   store0, fetches, runs>>

\* ------------------------------------------------- 2. process name changes
\* member_rsns.update(values).eq('member_id', m).eq('rsn', r)
UpdateByRsn(rows, m, r, p) ==
    [i \in DOMAIN rows |->
        IF rows[i].member_id = m /\ rows[i].rsn = r
        THEN [rows[i] EXCEPT !.is_primary = p] ELSE rows[i]]

\* member_rsns.update({'rsn': new}).eq('member_id', m).eq('rsn', r)
UpdateDisplay(rows, m, r, new) ==
    [i \in DOMAIN rows |->
        IF rows[i].member_id = m /\ rows[i].rsn = r
        THEN [rows[i] EXCEPT !.rsn = new] ELSE rows[i]]

\* member_rsns.update({'is_primary': False}).eq('member_id', m).eq('is_primary', True)
DemotePrimaries(rows, m) ==
    [i \in DOMAIN rows |->
        IF rows[i].member_id = m /\ rows[i].is_primary
        THEN [rows[i] EXCEPT !.is_primary = FALSE] ELSE rows[i]]

\* The branch of the resolver an event takes on the alias map.
RenameBranch(map, ch) ==
    LET old_norm == normalize_string(ch.oldName)
        new_norm == normalize_string(ch.newName)
    IN IF old_norm \notin DOMAIN map THEN "unknown"
       ELSE IF new_norm \in DOMAIN map
               /\ map[new_norm].member_id = map[old_norm].member_id
            THEN IF ~map[new_norm].is_primary THEN "revert" ELSE "processed"
       ELSE IF old_norm = new_norm THEN "display"
       ELSE "rename"

\* Store write statements the branch issues in a live run.
RenameWrites(branch) ==
    CASE branch = "revert" -> 2
      [] branch = "rename" -> 2
      [] branch = "display" -> 1
      [] OTHER -> 0

\* The effect of one event: fail = 0 when no statement raises, else the
\* ordinal of the statement that raises.
RenameEffect(rows, map, ch, dry, fail) ==
    LET old_norm == normalize_string(ch.oldName)
        new_norm == normalize_string(ch.newName)
        branch == RenameBranch(map, ch)
        member_id == map[old_norm].member_id
        original_db_rsn == map[old_norm].original_rsn
    IN CASE branch = "revert" ->
              LET r1 == UpdateByRsn(rows, member_id, original_db_rsn, FALSE)
                  r2 == UpdateByRsn(r1, member_id, map[new_norm].original_rsn, TRUE)
                  m1 == [map EXCEPT ![old_norm].is_primary = FALSE]
                  m2 == [m1 EXCEPT ![new_norm].is_primary = TRUE]
              IN [rows |-> IF dry \/ fail = 1 THEN rows ELSE IF fail = 2 THEN r1 ELSE r2,
                  map |-> IF fail = 0 THEN m2 ELSE map,
                  lines |-> <<Line("name_revert", 0)>> \o
                            (IF fail = 0 THEN <<>> ELSE <<Line("error_swap_primary", 0)>>)]
         [] branch = "display" ->
              [rows |-> IF dry \/ fail = 1 THEN rows
                        ELSE UpdateDisplay(rows, member_id, original_db_rsn, ch.newName),
               map |-> IF fail = 0
                       THEN [map EXCEPT ![new_norm].original_rsn = ch.newName] ELSE map,
               lines |-> <<Line("name_change", 0)>> \o
                         (IF fail = 0 THEN <<>> ELSE <<Line("error_name_change", 0)>>)]
         [] branch = "rename" ->
              LET r1 == DemotePrimaries(rows, member_id)
                  r2 == Append(r1, Rsn(ch.newName, member_id, TRUE))
                  m2 == Put(Remove(map, old_norm), new_norm,
                            [member_id |-> member_id, is_primary |-> TRUE,
                             original_rsn |-> ch.newName])
              IN [rows |-> IF dry \/ fail = 1 THEN rows ELSE IF fail = 2 THEN r1 ELSE r2,
                  map |-> IF fail = 0 THEN m2 ELSE map,
                  lines |-> <<Line("name_change", 0)>> \o
                            (IF fail = 0 THEN <<>> ELSE <<Line("error_name_change", 0)>>)]
         [] OTHER -> [rows |-> rows, map |-> map, lines |-> <<>>]

\* The request for the group's name changes, and the empty-feed return.
FetchNameChanges ==
    /\ pc = "name_changes"
    /\ fetches' = fetches + 1
    /\ \/ /\ pc' = IF name_changes = <<>> THEN "snapshots" ELSE "rename"
          /\ change_idx' = 1
          /\ UNCHANGED <<report_lines, faults>>
       \/ /\ faults < MaxFaults
          /\ faults' = faults + 1
          /\ report_lines' = Append(report_lines, Line("CRITICAL ERROR name changes", 0))
          /\ pc' = "snapshots"
          /\ UNCHANGED change_idx
    /\ UNCHANGED <<threads, norm, limiter, storeVars, envVars, dry_run, force_run, result, fetchedVars,
                   diffVars, store0, writes, runs>>

\* One iteration of the loop over the feed.
ProcessNameChange ==
    /\ pc = "rename"
    /\ LET ch == name_changes[change_idx]
           issued == IF dry_run THEN 0 ELSE RenameWrites(RenameBranch(db_rsn_map_normalized, ch))
       IN \E fail \in 0..issued :
            LET e == RenameEffect(member_rsns, db_rsn_map_normalized, ch, dry_run, fail)
            IN /\ fail > 0 => faults < MaxFaults
               /\ faults' = IF fail > 0 THEN faults + 1 ELSE faults
               /\ writes' = writes + (IF fail > 0 THEN fail ELSE issued)
               /\ member_rsns' = e.rows
               /\ db_rsn_map_normalized' = e.map
               /\ report_lines' = report_lines \o e.lines
    /\ change_idx' = change_idx + 1
    /\ pc' = IF change_idx = Len(name_changes) THEN "snapshots" ELSE "rename"
    /\ UNCHANGED <<threads, norm, limiter, ranks, members, rank_history, wom_snapshots, group_snapshots,
                   envVars, dry_run, force_run, result,
                   ranks_map_normalized, ranks_map_by_id, db_member_data,
                   all_db_members, wom_members, fetch_error, diffVars,
                   store0, fetches, runs>>

\* --------------------------------------------------- 3. enrich WOM data
\* Keys of wom_members in dict (first insertion) order.
RECURSIVE WomOrderFrom(_, _, _)
WomOrderFrom(ms, i, seen) ==
    IF i > Len(ms) THEN <<>>
    ELSE LET n == normalize_string(ms[i].username)
         IN IF n \in seen THEN WomOrderFrom(ms, i + 1, seen)
            ELSE <<n>> \o WomOrderFrom(ms, i + 1, seen \cup {n})

WomOrder(ms) == WomOrderFrom(ms, 1, {})

MemberIdOf(map, n) == IF n \in DOMAIN map THEN map[n].member_id ELSE None

\* A variant that skips whenever the member is known and Active.
SkipSnapshotKnown(wm, dmd, map, n) ==
    LET member_id == MemberIdOf(map, n)
    IN member_id /= None /\ member_id \in DOMAIN dmd

\* A variant that never takes the cached experience for valid.
SkipSnapshotNever(wm, dmd, map, n) == FALSE

\* The cache-validity check of fetch_player_snapshots.
SkipSnapshot(wm, dmd, map, n) ==
    LET member_id == MemberIdOf(map, n)
    IN /\ member_id /= None
       /\ member_id \in DOMAIN dmd
       /\ wm[n].stale_exp /= None
       /\ dmd[member_id].latest_db_xp /= None
       /\ wm[n].stale_exp = dmd[member_id].latest_db_xp

SnapshotRequests(wm, dmd, map, dry) ==
    IF dry THEN {} ELSE {n \in DOMAIN wm : ~SkipSnapshot(wm, dmd, map, n)}

FetchPlayerSnapshots ==
    /\ pc = "snapshots"
    /\ LET req == SnapshotRequests(wom_members, db_member_data, db_rsn_map_normalized, dry_run)
       IN \E bad \in SubsetsUpTo(req, MaxFaults - faults) :
            /\ faults' = faults + Cardinality(bad)
            /\ fetches' = fetches + Cardinality(req)
            /\ wom_members' =
                 [n \in DOMAIN wom_members |->
                    IF n \in req \ bad
                    THEN [wom_members[n] EXCEPT !.latest_snapshot = Snapshot(60)]
                    ELSE wom_members[n]]
    /\ pc' = "diff"
    /\ UNCHANGED <<threads, norm, limiter, storeVars, envVars, dry_run, force_run, result, report_lines,
                   ranks_map_normalized, ranks_map_by_id, db_rsn_map_normalized,
                   db_member_data, all_db_members, fetch_error, change_idx, diffVars,
                   store0, writes, runs>>

\* ------------------------------------- 3.5 - 5. payloads and classification
RECURSIVE SnapshotsPayload(_, _, _)
SnapshotsPayload(order, wm, map) ==
    IF order = <<>> THEN <<>>
    ELSE LET n == Head(order)
             rest == SnapshotsPayload(Tail(order), wm, map)
         IN IF wm[n].latest_snapshot.present /\ MemberIdOf(map, n) /= None
            THEN <<[member_id |-> MemberIdOf(map, n),
                    total_xp |-> wm[n].latest_snapshot.experience]>> \o rest
            ELSE rest

\* A variant that counts a member present only through its primary alias.
WomMemberIdsPresentPrimary(wm, map) ==
    {map[n].member_id : n \in {x \in (DOMAIN wm) \cap (DOMAIN map) : map[x].is_primary}}

WomMemberIdsPresent(wm, map) ==
    {map[n].member_id : n \in (DOMAIN wm) \cap (DOMAIN map)}

NewNormalizedRsns(wm, map) == (DOMAIN wm) \ (DOMAIN map)

\* A variant that classifies a member Departed as soon as one of its aliases
\* is absent from the roster.
DepartedIfOneAliasAbsent(wm, map, dmd) ==
    {m \in DOMAIN dmd : \E n \in (DOMAIN map) \ (DOMAIN wm) : map[n].member_id = m}

DepartedMemberIds(wm, map, dmd) == (DOMAIN dmd) \ WomMemberIdsPresent(wm, map)

RankIdOf(rmn, label) == Get(rmn, normalize_string(label), None)

LatestXp(m) ==
    IF m.latest_snapshot.present THEN m.latest_snapshot.experience
    ELSE IF m.stale_exp /= None /\ m.stale_exp /= 0 THEN m.stale_exp
    ELSE 0

\* A: the loop over the new entries.  acc carries the ranks table, the rank
\* map, the payload, the report lines and the number of rank inserts issued;
\* bad holds the entries whose rank insert raises.
RECURSIVE ProcessNew(_, _, _, _, _)
ProcessNew(order, wm, dry, bad, acc) ==
    IF order = <<>> THEN acc
    ELSE
      LET n == Head(order)
          member == wm[n]
          normalized_rank_name == normalize_string(member.rank)
          found == Get(acc.rmn, normalized_rank_name, None)
          create == found = None /\ ~dry
          created == create /\ n \notin bad
          new_id == MaxOf(DOMAIN acc.ranks) + 1
          rank_id == IF created THEN new_id ELSE found
          acc2 ==
            [ranks |-> IF created
                       THEN Put(acc.ranks, new_id, [name |-> member.rank, rank_type |-> "Other"])
                       ELSE acc.ranks,
             rmn |-> IF created THEN Put(acc.rmn, normalized_rank_name, new_id) ELSE acc.rmn,
             payload |-> Append(acc.payload,
                           [rsn |-> member.rsn, current_rank_id |-> rank_id,
                            latest_db_xp |-> LatestXp(member), status |-> "Active"]),
             lines |-> acc.lines \o
                       (IF found = None THEN <<Line("rank_not_found", 0)>> ELSE <<>>) \o
                       (IF created THEN <<Line("rank_created", 0)>>
                        ELSE IF create THEN <<Line("error_create_rank", 0)>> ELSE <<>>),
             issued |-> acc.issued + (IF create THEN 1 ELSE 0),
             raised |-> acc.raised + (IF create /\ ~created THEN 1 ELSE 0)]
      IN ProcessNew(Tail(order), wm, dry, bad, acc2)

\* B: returning members, through primary aliases only.
IsReturning(n, wm, map, adm, rmn) ==
    /\ n \in DOMAIN map
    /\ map[n].is_primary
    /\ map[n].member_id \in DOMAIN adm
    /\ adm[map[n].member_id].status = "Inactive"
    /\ RankIdOf(rmn, wm[n].rank) /= None

RECURSIVE ReturningPayload(_, _, _, _, _)
ReturningPayload(order, wm, map, adm, rmn) ==
    IF order = <<>> THEN <<>>
    ELSE LET n == Head(order)
             rest == ReturningPayload(Tail(order), wm, map, adm, rmn)
         IN IF IsReturning(n, wm, map, adm, rmn)
            THEN <<[member_id |-> map[n].member_id,
                    old_rank_id |-> adm[map[n].member_id].current_rank_id,
                    new_rank_id |-> RankIdOf(rmn, wm[n].rank)]>> \o rest
            ELSE rest

\* A variant that also compares ranks through non-primary aliases.
IsMismatchAnyAlias(n, wm, map, dmd, rmn) ==
    /\ n \in DOMAIN map
    /\ map[n].member_id \in DOMAIN dmd
    /\ RankIdOf(rmn, wm[n].rank) /= None
    /\ RankIdOf(rmn, wm[n].rank) /= dmd[map[n].member_id].current_rank_id

\* C: rank mismatches of Active members, through primary aliases only.
IsMismatch(n, wm, map, dmd, rmn) ==
    /\ n \in DOMAIN map
    /\ map[n].is_primary
    /\ map[n].member_id \in DOMAIN dmd
    /\ RankIdOf(rmn, wm[n].rank) /= None
    /\ RankIdOf(rmn, wm[n].rank) /= dmd[map[n].member_id].current_rank_id

Unknown == <<"U","n","k","n","o","w","n">>

RECURSIVE RankMismatches(_, _, _, _, _, _)
RankMismatches(order, wm, map, dmd, rmn, rbi) ==
    IF order = <<>> THEN <<>>
    ELSE LET n == Head(order)
             rest == RankMismatches(Tail(order), wm, map, dmd, rmn, rbi)
         IN IF IsMismatch(n, wm, map, dmd, rmn)
            THEN <<[rsn |-> wm[n].rsn,
                    db_rank |-> Get(rbi, dmd[map[n].member_id].current_rank_id, Unknown),
                    wom_rank |-> wm[n].rank]>> \o rest
            ELSE rest

BuildDiff ==
    /\ pc = "diff"
    /\ LET order == WomOrder(memberships)
           new == NewNormalizedRsns(wom_members, db_rsn_map_normalized)
           needy == IF dry_run THEN {}
                    ELSE {n \in new : RankIdOf(ranks_map_normalized, wom_members[n].rank) = None}
       IN \E bad \in SubsetsUpTo(needy, MaxFaults - faults) :
            LET a == ProcessNew(SetToSeq(new), wom_members, dry_run, bad,
                        [ranks |-> ranks, rmn |-> ranks_map_normalized, payload |-> <<>>,
                         lines |-> <<>>, issued |-> 0, raised |-> 0])
                setorder == SetToSeq(DOMAIN wom_members)
            IN /\ a.raised <= MaxFaults - faults
               /\ faults' = faults + a.raised
               /\ writes' = writes + a.issued
               /\ ranks' = a.ranks
               /\ ranks_map_normalized' = a.rmn
               /\ new_members_payload' = a.payload
               /\ report_lines' = report_lines \o a.lines
               /\ snapshots_payload' = SnapshotsPayload(order, wom_members, db_rsn_map_normalized)
               /\ new_normalized_rsns' = new
               /\ departed_member_ids' =
                    DepartedMemberIds(wom_members, db_rsn_map_normalized, db_member_data)
               /\ returning_members_payload' =
                    ReturningPayload(setorder, wom_members, db_rsn_map_normalized,
                                     all_db_members, a.rmn)
               /\ report_rank_mismatches' =
                    RankMismatches(setorder, wom_members, db_rsn_map_normalized,
                                   db_member_data, a.rmn, ranks_map_by_id)
    /\ pc' = "promotions"
    /\ UNCHANGED <<threads, norm, limiter, members, member_rsns, rank_history, wom_snapshots, group_snapshots,
                   envVars, dry_run, force_run, result, ranks_map_by_id,
                   db_rsn_map_normalized, db_member_data, all_db_members, wom_members,
                   fetch_error, change_idx, report_auto_rank_updates,
                   store0, fetches, runs>>

\* ------------------------------------------------ 5 D, E. pending promotions
\* Both loops index ranks_map_by_id by a fixed rank id for every Active member
\* and compare the member's rank id with that rank's name, which never equals
\* an id: nothing is ever reported, and the lookup raises KeyError when the
\* rank id is missing.
PromotionLookupRaises(dmd, rbi) ==
    DOMAIN dmd /= {} /\ (SapphireRankId \notin DOMAIN rbi \/ EmeraldRankId \notin DOMAIN rbi)

CheckPromotions ==
    /\ pc = "promotions"
    /\ IF PromotionLookupRaises(db_member_data, ranks_map_by_id)
       THEN /\ result' = "exception"
            /\ pc' = "idle"
       ELSE /\ pc' = "gate"
            /\ UNCHANGED result
    /\ UNCHANGED <<threads, norm, limiter, storeVars, envVars, dry_run, force_run, report_lines, fetchedVars,
                   change_idx, diffVars, store0, writes, fetches, faults, runs>>

\* ------------------------------------------------------- 6. circuit breaker
\* A variant that halts at the threshold itself.
DecideAtThreshold(mismatch_count, force) ==
    IF force THEN "PROCEED"
    ELSE IF mismatch_count >= MISMATCH_THRESHOLD THEN "HALT" ELSE "PROCEED"

Decide(mismatch_count, force) ==
    IF force THEN "PROCEED"
    ELSE IF mismatch_count > MISMATCH_THRESHOLD THEN "HALT" ELSE "PROCEED"

SafetyGate ==
    /\ pc = "gate"
    /\ LET mismatch_count == Len(report_rank_mismatches)
           head == <<Line("safety_checks", 0), Line("found_mismatches", mismatch_count)>>
       IN IF Decide(mismatch_count, force_run) = "HALT"
          THEN /\ report_lines' = report_lines \o head \o
                    <<Line("SYNC HALTED", mismatch_count),
                      Line("NO CHANGES HAVE BEEN MADE TO THE DATABASE", 0)>>
               /\ result' = "report"
               /\ pc' = "idle"
          ELSE /\ report_lines' = report_lines \o head \o
                    <<Line(IF force_run THEN "bypassing" ELSE "proceeding", mismatch_count)>>
               /\ pc' = "force"
               /\ UNCHANGED result
    /\ UNCHANGED <<threads, norm, limiter, storeVars, envVars, dry_run, force_run, fetchedVars, change_idx,
                   diffVars, store0, writes, fetches, faults, runs>>

\* -------------------------------------------------- 7. forced rank updates
\* re.match(r"(.+?): DB says '(.+?)', WOM says '(.+?)'", report_str) on a line
\* whose three fields hold no quote: every group needs at least one character.
MismatchParses(r) == r.rsn /= <<>> /\ r.db_rank /= <<>> /\ r.wom_rank /= <<>>

SetRank(mem, id, r) == [mem EXCEPT ![id].current_rank_id = r]

\* The loop over report_rank_mismatches; bad holds the positions whose member
\* update raises.
RECURSIVE ForceUpdates(_, _, _, _, _, _, _, _)
ForceUpdates(list, i, map, dmd, rmn, dry, bad, acc) ==
    IF i > Len(list) THEN acc
    ELSE
      LET r == list[i]
          normalized_rsn == normalize_string(r.rsn)
          known == normalized_rsn \in DOMAIN map /\ map[normalized_rsn].member_id \in DOMAIN dmd
          member_id == map[normalized_rsn].member_id
          new_rank_id == RankIdOf(rmn, r.wom_rank)
          acc2 ==
            IF ~MismatchParses(r) THEN acc
            ELSE IF ~known THEN [acc EXCEPT !.lines = Append(@, Line("error_auto_update", 0))]
            ELSE IF new_rank_id = None
                 THEN [acc EXCEPT !.lines = Append(@, Line("error_unknown_rank", 0))]
            ELSE IF dry THEN [acc EXCEPT !.auto = Append(@, r)]
            ELSE IF i \in bad
                 THEN [acc EXCEPT !.lines = Append(@, Line("error_auto_update", 0)),
                                  !.issued = @ + 1, !.raised = @ + 1]
            ELSE [acc EXCEPT !.members = SetRank(@, member_id, new_rank_id),
                             !.history = Append(@, [member_id |-> member_id,
                                                    previous_rank_id |-> dmd[member_id].current_rank_id,
                                                    new_rank_id |-> new_rank_id]),
                             !.auto = Append(@, r),
                             !.issued = @ + 1]
      IN ForceUpdates(list, i + 1, map, dmd, rmn, dry, bad, acc2)

ForceRankUpdates ==
    /\ pc = "force"
    /\ IF force_run /\ report_rank_mismatches /= <<>>
       THEN \E bad \in SubsetsUpTo(IF dry_run THEN {} ELSE 1..Len(report_rank_mismatches),
                                   MaxFaults - faults) :
              LET a == ForceUpdates(report_rank_mismatches, 1, db_rsn_map_normalized,
                          db_member_data, ranks_map_normalized, dry_run, bad,
                          [members |-> members, history |-> <<>>, auto |-> <<>>,
                           lines |-> <<Line("forced_rank_updates", 0)>>,
                           issued |-> 0, raised |-> 0])
              IN /\ a.raised = Cardinality(bad)
                 /\ members' = a.members
                 /\ report_auto_rank_updates' = a.auto
                 /\ report_rank_mismatches' = <<>>
                 /\ IF a.history = <<>>
                    THEN /\ report_lines' = report_lines \o a.lines
                         /\ writes' = writes + a.issued
                         /\ faults' = faults + a.raised
                         /\ UNCHANGED rank_history
                    ELSE \/ /\ rank_history' = rank_history \o a.history
                            /\ report_lines' = report_lines \o a.lines
                            /\ writes' = writes + a.issued + 1
                            /\ faults' = faults + a.raised
                         \/ /\ faults + a.raised < MaxFaults
                            /\ faults' = faults + a.raised + 1
                            /\ writes' = writes + a.issued + 1
                            /\ report_lines' = report_lines \o a.lines \o
                                               <<Line("error_rank_history", 0)>>
                            /\ UNCHANGED rank_history
       ELSE UNCHANGED <<members, rank_history, report_lines, writes, faults,
                        report_auto_rank_updates, report_rank_mismatches>>
    /\ pc' = IF dry_run THEN "dry_summary" ELSE "new_members"
    /\ UNCHANGED <<threads, norm, limiter, ranks, member_rsns, wom_snapshots, group_snapshots, envVars,
                   dry_run, force_run, result, fetchedVars, change_idx,
                   snapshots_payload, new_normalized_rsns, departed_member_ids,
                   new_members_payload, returning_members_payload,
                   store0, fetches, runs>>

\* --------------------------------------------------- 8. execute DB writes
\* A: members.insert(payload), then member_rsns.insert, then rank_history.insert.
NewMemberRows(payload) ==
    [i \in 1..Len(payload) |-> Member(payload[i].status, payload[i].current_rank_id)]

\* A variant that inserts the new aliases without the primary flag.
NewRsnRowsNotPrimary(payload, base) ==
    [i \in 1..Len(payload) |-> Rsn(payload[i].rsn, base + i, FALSE)]

NewRsnRows(payload, base) ==
    [i \in 1..Len(payload) |-> Rsn(payload[i].rsn, base + i, TRUE)]

\* A variant that records the member's rank as the previous rank too.
NewHistoryRowsFromRank(payload, base) ==
    [i \in 1..Len(payload) |->
        [member_id |-> base + i, previous_rank_id |-> payload[i].current_rank_id,
         new_rank_id |-> payload[i].current_rank_id]]

NewHistoryRows(payload, base) ==
    [i \in 1..Len(payload) |->
        [member_id |-> base + i, previous_rank_id |-> None,
         new_rank_id |-> payload[i].current_rank_id]]

WriteNewMembers ==
    /\ pc = "new_members"
    /\ IF new_members_payload = <<>>
       THEN UNCHANGED <<members, member_rsns, rank_history, report_lines, writes, faults>>
       ELSE \E fail \in 0..3 :
              LET base == Len(members)
                  n == Len(new_members_payload)
              IN /\ fail > 0 => faults < MaxFaults
                 /\ faults' = IF fail > 0 THEN faults + 1 ELSE faults
                 /\ writes' = writes + (IF fail > 0 THEN fail ELSE 3)
                 /\ members' = IF fail = 1 THEN members
                               ELSE members \o NewMemberRows(new_members_payload)
                 /\ member_rsns' = IF fail \in {1, 2} THEN member_rsns
                                   ELSE member_rsns \o NewRsnRows(new_members_payload, base)
                 /\ rank_history' = IF fail \in {1, 2, 3} THEN rank_history
                                    ELSE rank_history \o NewHistoryRows(new_members_payload, base)
                 /\ report_lines' = report_lines \o <<Line("adding_new_members", n)>> \o
                        (IF fail = 0 THEN <<Line("new_member_complete", 0)>>
                         ELSE <<Line("ERROR processing new members", 0)>>)
    /\ pc' = "returning"
    /\ UNCHANGED <<threads, norm, limiter, ranks, wom_snapshots, group_snapshots, envVars, dry_run, force_run,
                   result, fetchedVars, change_idx, diffVars, store0, fetches, runs>>

\* A2: one members.update per returning member, then one rank_history.insert;
\* the first statement that raises ends the step.
RECURSIVE Reactivate(_, _, _)
Reactivate(mem, payload, upto) ==
    IF upto = 0 THEN mem
    ELSE LET r == payload[upto]
         IN [Reactivate(mem, payload, upto - 1) EXCEPT
                ![r.member_id] = Member("Active", r.new_rank_id)]

ReturningHistoryRows(payload) ==
    [i \in 1..Len(payload) |->
        [member_id |-> payload[i].member_id,
         previous_rank_id |-> payload[i].old_rank_id,
         new_rank_id |-> payload[i].new_rank_id]]

WriteReturning ==
    /\ pc = "returning"
    /\ IF returning_members_payload = <<>>
       THEN UNCHANGED <<members, rank_history, report_lines, writes, faults>>
       ELSE LET n == Len(returning_members_payload)
            IN \E fail \in 0..(n + 1) :
                 /\ fail > 0 => faults < MaxFaults
                 /\ faults' = IF fail > 0 THEN faults + 1 ELSE faults
                 /\ writes' = writes + (IF fail > 0 THEN fail ELSE n + 1)
                 /\ members' = Reactivate(members, returning_members_payload,
                                          IF fail = 0 THEN n ELSE fail - 1)
                 /\ rank_history' = IF fail = 0
                                    THEN rank_history \o ReturningHistoryRows(returning_members_payload)
                                    ELSE rank_history
                 /\ report_lines' = report_lines \o <<Line("reactivating", n)>> \o
                        (IF fail = 0 THEN <<Line("returning_complete", 0)>>
                         ELSE <<Line("ERROR processing returning members", 0)>>)
    /\ pc' = "departed"
    /\ UNCHANGED <<threads, norm, limiter, ranks, member_rsns, wom_snapshots, group_snapshots, envVars, dry_run,
                   force_run, result, fetchedVars, change_idx, diffVars, store0,
                   fetches, runs>>

\* A variant that deletes the departed members' rows.
DeactivateByDelete(mem, ids) ==
    LET kept == Ascending((DOMAIN mem) \ ids)
    IN [i \in DOMAIN kept |-> mem[kept[i]]]

\* B: members.update({"status": 'Inactive'}).in_('id', departed)
Deactivate(mem, ids) ==
    [i \in DOMAIN mem |-> IF i \in ids THEN [mem[i] EXCEPT !.status = "Inactive"] ELSE mem[i]]

\* report_deactivated is never appended to: its length is 0.
ReportDeactivatedLen == Len(<<>>)

\* A variant that inserts the snapshots together with the deactivation.
WriteDepartedWithSnapshots ==
    /\ pc = "departed"
    /\ wom_snapshots' = wom_snapshots \o snapshots_payload
    /\ IF departed_member_ids = {}
       THEN UNCHANGED <<members, report_lines, writes, faults>>
       ELSE /\ writes' = writes + 2
            /\ members' = Deactivate(members, departed_member_ids)
            /\ report_lines' = report_lines \o
                  <<Line("deactivating", ReportDeactivatedLen),
                    Line("deactivation_complete", 0)>>
            /\ UNCHANGED faults
    /\ pc' = "stats"
    /\ UNCHANGED <<threads, norm, limiter, ranks, member_rsns, rank_history, group_snapshots,
                   envVars, dry_run, force_run, result, fetchedVars, change_idx,
                   diffVars, store0, fetches, runs>>

\* A variant that gives up the deactivation once an earlier step has raised.
WriteDepartedUnlessError ==
    /\ pc = "departed"
    /\ IF departed_member_ids = {} \/ faults > 0
       THEN UNCHANGED <<members, report_lines, writes, faults>>
       ELSE /\ writes' = writes + 1
            /\ members' = Deactivate(members, departed_member_ids)
            /\ report_lines' = report_lines \o
                  <<Line("deactivating", ReportDeactivatedLen),
                    Line("deactivation_complete", 0)>>
            /\ UNCHANGED faults
    /\ pc' = "stats"
    /\ UNCHANGED <<threads, norm, limiter, ranks, member_rsns, rank_history, wom_snapshots, group_snapshots,
                   envVars, dry_run, force_run, result, fetchedVars, change_idx,
                   diffVars, store0, fetches, runs>>

WriteDeparted ==
    /\ pc = "departed"
    /\ IF departed_member_ids = {}
       THEN UNCHANGED <<members, report_lines, writes, faults>>
       ELSE /\ writes' = writes + 1
            /\ \/ /\ members' = Deactivate(members, departed_member_ids)
                  /\ report_lines' = report_lines \o
                        <<Line("deactivating", ReportDeactivatedLen),
                          Line("deactivation_complete", 0)>>
                  /\ UNCHANGED faults
               \/ /\ faults < MaxFaults
                  /\ faults' = faults + 1
                  /\ report_lines' = report_lines \o
                        <<Line("deactivating", ReportDeactivatedLen),
                          Line("ERROR deactivating members", 0)>>
                  /\ UNCHANGED members
    /\ pc' = "stats"
    /\ UNCHANGED <<threads, norm, limiter, ranks, member_rsns, rank_history, wom_snapshots, group_snapshots,
                   envVars, dry_run, force_run, result, fetchedVars, change_idx,
                   diffVars, store0, fetches, runs>>

\* C: wom_snapshots.insert(snapshots_payload)
WriteSnapshots ==
    /\ pc = "stats"
    /\ IF snapshots_payload = <<>>
       THEN /\ report_lines' = Append(report_lines, Line("no_new_snapshots", 0))
            /\ UNCHANGED <<wom_snapshots, writes, faults>>
       ELSE /\ writes' = writes + 1
            /\ \/ /\ wom_snapshots' = wom_snapshots \o snapshots_payload
                  /\ report_lines' = report_lines \o
                        <<Line("inserting_snapshots", Len(snapshots_payload)),
                          Line("snapshot_complete", 0)>>
                  /\ UNCHANGED faults
               \/ /\ faults < MaxFaults
                  /\ faults' = faults + 1
                  /\ report_lines' = report_lines \o
                        <<Line("inserting_snapshots", Len(snapshots_payload)),
                          Line("Error inserting snapshots", 0)>>
                  /\ UNCHANGED wom_snapshots
    /\ pc' = "finish"
    /\ UNCHANGED <<threads, norm, limiter, ranks, members, member_rsns, rank_history, group_snapshots,
                   envVars, dry_run, force_run, result, fetchedVars, change_idx,
                   diffVars, store0, fetches, runs>>

\* The dry-run branch of step 8.
DryRunSummary ==
    /\ pc = "dry_summary"
    /\ report_lines' = report_lines \o
          <<Line("SKIPPING ALL DATABASE WRITES", 0),
            Line("would_add", Len(new_members_payload)),
            Line("would_reactivate", Len(returning_members_payload)),
            Line("would_deactivate", ReportDeactivatedLen),
            Line("would_insert_snapshots", Len(snapshots_payload))>> \o
          (IF report_auto_rank_updates /= <<>>
           THEN <<Line("would_force_update", Len(report_auto_rank_updates))>> ELSE <<>>)
    /\ pc' = "finish"
    /\ UNCHANGED <<threads, norm, limiter, storeVars, envVars, dry_run, force_run, result, fetchedVars,
                   change_idx, diffVars, store0, writes, fetches, faults, runs>>

\* The pending-promotions section (always empty) and the return of the report.
Finish ==
    /\ pc = "finish"
    /\ report_lines' = report_lines \o
          <<Line("no_pending_promotions", 0), Line("Sync Complete", 0)>>
    /\ result' = "report"
    /\ pc' = "idle"
    /\ UNCHANGED <<threads, norm, limiter, storeVars, envVars, dry_run, force_run, fetchedVars, change_idx,
                   diffVars, store0, writes, fetches, faults, runs>>

\* ------------------------------------------------------------ specification
Next ==
    \/ sync_clan
    \/ scheduled_clan_sync
    \/ run_sync
    \/ FetchData
    \/ InsertGroupSnapshot
    \/ FetchNameChanges
    \/ ProcessNameChange
    \/ FetchPlayerSnapshots
    \/ BuildDiff
    \/ CheckPromotions
    \/ SafetyGate
    \/ ForceRankUpdates
    \/ WriteNewMembers
    \/ WriteReturning
    \/ WriteDeparted
    \/ WriteSnapshots
    \/ DryRunSummary
    \/ Finish

Spec == Init /\ [][Next]_vars

TypeOK ==
    /\ pc \in {"idle", "fetch", "group_snapshot", "name_changes", "rename", "snapshots",
               "diff", "promotions", "gate", "force", "new_members", "returning",
               "departed", "stats", "dry_summary", "finish"}
    /\ result \in {"none", "report", "usage_error", "exception"}
    /\ faults \in 0..MaxFaults
    /\ runs \in 0..(MaxRuns + MaxReruns)

\* =================================================================== claims
Completed == pc = "idle" /\ result = "report" /\ HasLine("Sync Complete")
Halted == pc = "idle" /\ result = "report" /\ HasLine("SYNC HALTED")

PrimaryRows(rows, m) == {i \in DOMAIN rows : rows[i].member_id = m /\ rows[i].is_primary}
RowsNamed(rows, m, name) == {i \in DOMAIN rows : rows[i].member_id = m /\ rows[i].rsn = name}

\* C1: a dry run issues no store write, so the store stays what it was when
\* the call began, for either value of force_run.
C1_DryRunWritesNothing == dry_run => (writes = 0 /\ Store = store0)

\* C1 witness: a completed dry run that had a member to add and one to deactivate.
C1_Witness ==
    /\ dry_run /\ Completed /\ HasLine("SKIPPING ALL DATABASE WRITES")
    /\ new_members_payload /= <<>> /\ departed_member_ids /= {}

\* C2: when the safety gate halts a run, the run has made no store write.
C2_HaltMeansNoWrites ==
    (Halted /\ faults = 0) => (writes = 0 /\ Store = store0)

\* C3: without force the gate proceeds at MISMATCH_THRESHOLD mismatches or
\* fewer and halts at MISMATCH_THRESHOLD + 1 or more; with force it never halts.
C3_GateThreshold ==
    \A i \in DOMAIN report_lines :
        report_lines[i].t = "found_mismatches" =>
            /\ (force_run => ~HasLine("SYNC HALTED"))
            /\ (~force_run /\ report_lines[i].n <= MISMATCH_THRESHOLD => ~HasLine("SYNC HALTED"))
            /\ (~force_run /\ report_lines[i].n >= MISMATCH_THRESHOLD + 1 => Halted)

\* C3 witness: a run without force that found exactly MISMATCH_THRESHOLD
\* mismatches and went on to the end.
C3_Witness ==
    /\ ~force_run /\ Completed
    /\ \E i \in DOMAIN report_lines :
          report_lines[i].t = "found_mismatches" /\ report_lines[i].n = MISMATCH_THRESHOLD

\* C4: a call with force_run and dry_run both true is rejected before any
\* fetch and any write, through /syncclan or through run_sync itself.
C4_ForceDryRejected == (dry_run /\ force_run) => (fetches = 0 /\ writes = 0)

\* C5: after a completed run every member has at most one primary RSN row.
C5_AtMostOnePrimary ==
    (Completed /\ faults = 0) =>
        \A m \in DOMAIN members : Cardinality(PrimaryRows(member_rsns, m)) <= 1

\* The events of the feed that rename a stored alias to a different string of
\* the same normalized form.
SameFormEvents ==
    {i \in DOMAIN name_changes :
        /\ name_changes[i].oldName /= name_changes[i].newName
        /\ normalize_string(name_changes[i].oldName) = normalize_string(name_changes[i].newName)
        /\ \E j \in DOMAIN store0.member_rsns :
              store0.member_rsns[j].rsn = name_changes[i].oldName}

\* C6: a rename of a known alias to a name of the same normalized form leaves,
\* after a live run, the alias row carrying the new display string, and adds no row.
C6_DisplayRenamedInPlace ==
    (Completed /\ ~dry_run /\ faults = 0) =>
        \A i \in SameFormEvents :
            /\ \E j \in DOMAIN member_rsns : member_rsns[j].rsn = name_changes[i].newName
            /\ \A j \in DOMAIN member_rsns : member_rsns[j].rsn /= name_changes[i].oldName

\* C7: the events O->N then N->O for a member whose primary is O end with O
\* primary and one row each for O and N.
C7_RenameThereAndBack ==
    (Completed /\ ~dry_run /\ faults = 0
        /\ name_changes = <<Change(Al, Di), Change(Di, Al)>>
        /\ store0 = MainStore) =>
        /\ Cardinality(RowsNamed(member_rsns, 1, Al)) = 1
        /\ Cardinality(RowsNamed(member_rsns, 1, Di)) = 1
        /\ \A i \in RowsNamed(member_rsns, 1, Al) : member_rsns[i].is_primary
        /\ \A i \in RowsNamed(member_rsns, 1, Di) : ~member_rsns[i].is_primary

\* C8: with a roster of one entry and a store without members and aliases, a
\* live run creates one member, its primary RSN and one rank-history row
\* with no previous rank.
C8_FirstMemberCreated ==
    (pc = "idle" /\ result = "report" /\ ~dry_run /\ faults = 0 /\ fetch_error = {}
        /\ store0.members = <<>> /\ store0.member_rsns = <<>> /\ Len(memberships) = 1) =>
        /\ Len(new_members_payload) = 1
        /\ Len(members) = 1
        /\ member_rsns = <<Rsn(memberships[1].username, 1, TRUE)>>
        /\ Len(rank_history) = 1
        /\ rank_history[1].previous_rank_id = None

\* The Active members of the call that are in the roster through a
\* non-primary alias only (on the alias map the diff uses).
AltOnlyMembers ==
    {m \in DOMAIN db_member_data :
        /\ \E n \in (DOMAIN wom_members) \cap (DOMAIN db_rsn_map_normalized) :
              db_rsn_map_normalized[n].member_id = m
        /\ \A n \in (DOMAIN wom_members) \cap (DOMAIN db_rsn_map_normalized) :
              db_rsn_map_normalized[n].member_id = m => ~db_rsn_map_normalized[n].is_primary}

DiffDone == pc \in {"promotions", "gate", "force", "new_members", "returning",
                    "departed", "stats", "dry_summary", "finish"}
            \/ (pc = "idle" /\ result = "report" /\ fetch_error = {} /\ AllFetched(wom_members,
                    ranks_map_normalized, db_member_data, db_rsn_map_normalized, all_db_members))

C10_FetchFailureHalts ==
    fetch_error /= {} =>
        /\ pc = "idle" /\ result = "report"
        /\ HasLine("CRITICAL ERROR")
        /\ writes = 0 /\ Store = store0
        /\ change_idx = 0 /\ fetches = 4
        /\ db_rsn_map_normalized = IF "ranks_rsns" \in fetch_error THEN EmptyMap
                                   ELSE RsnMapNormalized(store0.member_rsns)

\* C10 witness: a live call whose roster fetch failed.
C10_Witness == fetch_error = {"wom"} /\ ~dry_run /\ runs = 1

\* C11: when the initial fetches succeed, a call of run_sync ends by returning
\* the report; it never ends in an exception raised to its caller.
C11_AlwaysReturnsReport ==
    (pc = "idle" /\ runs > 0 /\ fetch_error = {}) => result \in {"report", "usage_error"}

\* The roster of the call holds a name that is a primary alias row of member m
\* in the store.
RosterMatchesPrimary(m) ==
    \E i \in DOMAIN member_rsns :
        /\ member_rsns[i].member_id = m
        /\ member_rsns[i].is_primary
        /\ normalize_string(member_rsns[i].rsn) \in DOMAIN wom_members

\* The step overwrites the rank of member m, reactivates it, or appends a
\* rank-history row for it.
RankTouched(m) ==
    \/ members'[m].current_rank_id /= members[m].current_rank_id
    \/ members[m].status = "Inactive" /\ members'[m].status = "Active"
    \/ \E i \in (Len(rank_history) + 1)..Len(rank_history') : rank_history'[i].member_id = m

\* C12: no step overwrites a member's rank, reactivates it or writes a
\* rank-history row for it unless the roster holds one of the member's primary
\* aliases: an entry that matches a non-primary alias only causes none of these.
C12_AltNeverTouchesRank ==
    [][\A m \in DOMAIN members : RankTouched(m) => RosterMatchesPrimary(m)]_vars

\* ------------------------------------------------ successive runs of the bot
\* The scheduled loop fires again after an earlier call has returned its
\* report: one more call run_sync(dry_run=False, force_run=False) against the
\* same roster and rename feed.
RunAgain ==
    /\ pc = "idle"
    /\ result = "report"
    /\ runs >= MaxRuns
    /\ runs < MaxRuns + MaxReruns
    /\ runs' = runs + 1
    /\ dry_run' = FALSE
    /\ force_run' = FALSE
    /\ result' = "none"
    /\ report_lines' = <<Line("start", 0)>>
    /\ pc' = "fetch"
    /\ ResetLocals
    /\ UNCHANGED <<threads, norm, limiter, storeVars, envVars, faults>>

\* Stores without the ordinary members.
InitRerun == Init /\ Len(members) <= 2

NextRerun == Next \/ RunAgain

SpecRerun == InitRerun /\ [][NextRerun]_vars
\* A later live call, begun on the store that an earlier live call left after
\* it got through its fetches, with no statement raising so far.
LaterLiveRun ==
    runs > MaxRuns /\ ~dry_run /\ faults = 0 /\ store0.group_snapshots >= 1

\* C13: a second live run against the same roster and rename feed appends no
\* rank-history row, creates no member and no alias row, and changes no
\* member's rank or status.
C13_SecondRunChangesNothing ==
    LaterLiveRun =>
        /\ rank_history = store0.rank_history
        /\ members = store0.members
        /\ Len(member_rsns) = Len(store0.member_rsns)

\* ------------------------------- the request loop of fetch_player_snapshots
\* The loop taken on its own, in a live run, over the players that are not
\* skipped.  requests.get has no timeout: a request takes no noticeable time,
\* or half a minute, or a minute.
RequestLatencies == {0, 300, 600}

\* if request_count >= 90: sleep to 60.1 s after start_time when less than
\* 60 s have elapsed, then request_count = 0 and start_time = time.time().
RateLimitReset ==
    /\ limiter.todo > 0
    /\ limiter.request_count >= RequestQuota
    /\ LET elapsed == limiter.now - limiter.start_time
           woken == IF elapsed < WindowTenths
                    THEN limiter.now + (SleepTenths - elapsed) ELSE limiter.now
       IN limiter' = [limiter EXCEPT !.now = woken, !.request_count = 0,
                                     !.start_time = woken]
    /\ UNCHANGED <<threads, norm, storeVars, envVars, pc, dry_run, force_run, result, report_lines,
                   fetchedVars, change_idx, diffVars, store0, writes, fetches, faults, runs>>

\* requests.get(url) for the next player, request_count += 1.
SendSnapshotRequest ==
    /\ limiter.todo > 0
    /\ limiter.request_count < RequestQuota
    /\ \E d \in RequestLatencies :
         /\ d > 0 => limiter.slow < MaxSlow
         /\ limiter' = [todo |-> limiter.todo - 1,
                        request_count |-> limiter.request_count + 1,
                        start_time |-> limiter.start_time,
                        now |-> limiter.now + d,
                        sent |-> Put(limiter.sent, limiter.now,
                                     Get(limiter.sent, limiter.now, 0) + 1),
                        slow |-> limiter.slow + (IF d > 0 THEN 1 ELSE 0)]
    /\ UNCHANGED <<threads, norm, storeVars, envVars, pc, dry_run, force_run, result, report_lines,
                   fetchedVars, change_idx, diffVars, store0, writes, fetches, faults, runs>>

InitLimiter == InitCall(World(MainStore, RosterAlCy, <<>>), MaxPlayers, NoneArg)

NextLimiter == RateLimitReset \/ SendSnapshotRequest

SpecLimiter == InitLimiter /\ [][NextLimiter]_vars

\* The requests sent at the instants of T.
RECURSIVE SentAt(_, _)
SentAt(sent, T) ==
    IF T = {} THEN 0
    ELSE LET t == CHOOSE x \in T : TRUE IN sent[t] + SentAt(sent, T \ {t})

\* The requests sent in the 60 seconds that begin at instant t.
SentInWindow(sent, t) ==
    SentAt(sent, {u \in DOMAIN sent : t <= u /\ u < t + WindowTenths})

\* C14: in no rolling 60-second window does the loop send more than 90
\* per-player snapshot requests.
C14_RollingWindowQuota ==
    \A t \in DOMAIN limiter.sent : SentInWindow(limiter.sent, t) <= RequestQuota

\* ------------------------------------------------ normalize_string on its own
\* Characters of the strings tried: letters of both cases, a digit and the
\* four characters the function removes.
NormAlphabet == {"A", "Z", "b", "1", " ", "_", "-", "."}

RECURSIVE StringsUpTo(_)
StringsUpTo(n) ==
    IF n = 0 THEN {<<>>}
    ELSE LET shorter == StringsUpTo(n - 1)
         IN shorter \cup {Append(s, c) : s \in shorter, c \in NormAlphabet}

NormArgs == {NoneArg} \cup {StrArg(s) : s \in StringsUpTo(MaxLen)}

\* if not s: return "" -- None and the empty string are both falsy.
normalize_arg(a) == IF a.none THEN <<>> ELSE normalize_string(a.s)

\* y = normalize_string(x)
NormalizeOnce ==
    /\ norm.step = 0
    /\ norm' = [norm EXCEPT !.step = 1, !.once = normalize_arg(norm.arg)]
    /\ UNCHANGED <<threads, limiter, storeVars, envVars, pc, dry_run, force_run, result, report_lines,
                   fetchedVars, change_idx, diffVars, store0, writes, fetches, faults, runs>>

\* z = normalize_string(y)
NormalizeTwice ==
    /\ norm.step = 1
    /\ norm' = [norm EXCEPT !.step = 2, !.twice = normalize_arg(StrArg(norm.once))]
    /\ UNCHANGED <<threads, limiter, storeVars, envVars, pc, dry_run, force_run, result, report_lines,
                   fetchedVars, change_idx, diffVars, store0, writes, fetches, faults, runs>>

InitNormalize == \E a \in NormArgs : InitCall(World(MainStore, RosterAlCy, <<>>), 0, a)

NextNormalize == NormalizeOnce \/ NormalizeTwice

SpecNormalize == InitNormalize /\ [][NextNormalize]_vars

\* C15: normalize_string(normalize_string(x)) = normalize_string(x) for every
\* x, None and the empty string included, and the result holds no upper-case
\* letter, space, underscore, hyphen or period.
C15_NormalizeIdempotent ==
    /\ norm.step >= 1 =>
          \A i \in DOMAIN norm.once :
              norm.once[i] \notin (Range(UpperCase) \cup {" ", "_", "-", "."})
    /\ norm.step = 2 => norm.twice = norm.once

\* C15 witness: a string with an upper-case letter and a removed character in
\* it has been normalized twice, to a non-empty result.
C15_Witness ==
    /\ norm.step = 2
    /\ ~norm.arg.none
    /\ \E i, j \in DOMAIN norm.arg.s :
          norm.arg.s[i] \in Range(UpperCase) /\ norm.arg.s[j] \in {" ", "_", "-", "."}
    /\ norm.twice /= <<>>

\* C16: no step deletes a member row, and no step updates or deletes an
\* existing rank-history row: member ids only grow and rank-history rows are
\* only appended, across successive runs.
C16_MembersAndHistoryOnlyGrow ==
    [][/\ DOMAIN members \subseteq DOMAIN members'
       /\ Len(rank_history') >= Len(rank_history)
       /\ SubSeq(rank_history', 1, Len(rank_history)) = rank_history]_vars

\* C16 witness: a later run has added a member and rank-history rows to a
\* store that already held rank-history rows and a deactivated member.
C16_Witness ==
    /\ runs > MaxRuns
    /\ store0.rank_history /= <<>>
    /\ Len(rank_history) > Len(store0.rank_history)
    /\ Len(members) > Len(store0.members)
    /\ \E m \in DOMAIN members : members[m].status = "Inactive"

\* ------------------------------------------- overlapping calls of run_sync
\* scheduled_clan_sync and /syncclan both await asyncio.to_thread(run_sync):
\* the event loop stays free while a call runs, and nothing (no lock, no
\* flag) keeps the other handler from starting its own call.  Each call is
\* run_sync(dry_run=False, force_run=False) against an empty rename feed with
\* no statement raising; its steps are those of run_sync, the steps that touch
\* no shared state being taken together with the next one that does.
callVars == <<pc, dry_run, force_run, result, report_lines, fetchedVars, change_idx,
              diffVars, store0, writes, fetches, faults, runs, limiter, norm>>

\* report_string = await asyncio.to_thread(clan_sync_logic.run_sync, ...)
ThreadStart(t) ==
    /\ threads[t].pc = "idle"
    /\ threads' = [threads EXCEPT ![t].pc = "fetch"]
    /\ UNCHANGED <<storeVars, envVars, callVars>>

\* 1. the four fetches and the check on them
ThreadFetch(t) ==
    /\ threads[t].pc = "fetch"
    /\ LET rmn == RanksMapNormalized(ranks)
           map == RsnMapNormalized(member_rsns)
           dmd == fetch_db_member_data(members, wom_snapshots)
           adm == fetch_all_db_members(members)
           wm == fetch_wom_members(memberships)
       IN threads' = [threads EXCEPT ![t] =
              [@ EXCEPT !.rmn = rmn, !.rbi = RanksMapById(ranks), !.map = map,
                        !.dmd = dmd, !.adm = adm, !.wm = wm,
                        !.pc = IF AllFetched(wm, rmn, dmd, map, adm)
                               THEN "group_snapshot" ELSE "done"]]
    /\ UNCHANGED <<storeVars, envVars, callVars>>

\* 1.5 the group snapshot row
ThreadGroupSnapshot(t) ==
    /\ threads[t].pc = "group_snapshot"
    /\ InsertsGroupSnapshot(TRUE, FALSE)
    /\ group_snapshots' = group_snapshots + 1
    /\ threads' = [threads EXCEPT ![t].pc = "diff"]
    /\ UNCHANGED <<ranks, members, member_rsns, rank_history, wom_snapshots,
                   envVars, callVars>>

\* 2 - 6. the empty rename feed, the snapshot requests, the diff with its
\* rank inserts, the promotion checks and the gate
ThreadDiff(t) ==
    /\ threads[t].pc = "diff"
    /\ name_changes = <<>>
    /\ LET th == threads[t]
           req == SnapshotRequests(th.wm, th.dmd, th.map, FALSE)
           wm == [n \in DOMAIN th.wm |->
                    IF n \in req THEN [th.wm[n] EXCEPT !.latest_snapshot = Snapshot(60)]
                    ELSE th.wm[n]]
           a == ProcessNew(SetToSeq(NewNormalizedRsns(wm, th.map)), wm, FALSE, {},
                    [ranks |-> ranks, rmn |-> th.rmn, payload |-> <<>>,
                     lines |-> <<>>, issued |-> 0, raised |-> 0])
           setorder == SetToSeq(DOMAIN wm)
           mismatches == RankMismatches(setorder, wm, th.map, th.dmd, a.rmn, th.rbi)
           goes_on == /\ ~PromotionLookupRaises(th.dmd, th.rbi)
                      /\ Decide(Len(mismatches), FALSE) = "PROCEED"
       IN /\ ranks' = a.ranks
          /\ threads' = [threads EXCEPT ![t] =
                [@ EXCEPT !.wm = wm, !.rmn = a.rmn,
                          !.new_members_payload = a.payload,
                          !.snapshots_payload =
                              SnapshotsPayload(WomOrder(memberships), wm, th.map),
                          !.departed_member_ids = DepartedMemberIds(wm, th.map, th.dmd),
                          !.returning_members_payload =
                              ReturningPayload(setorder, wm, th.map, th.adm, a.rmn),
                          !.pc = IF goes_on THEN "new_members" ELSE "done"]]
    /\ UNCHANGED <<members, member_rsns, rank_history, wom_snapshots, group_snapshots,
                   envVars, callVars>>

\* 8 A. the new members, their aliases and their first rank-history rows
ThreadWriteNewMembers(t) ==
    /\ threads[t].pc = "new_members"
    /\ LET payload == threads[t].new_members_payload
           base == Len(members)
       IN IF payload = <<>>
          THEN UNCHANGED <<members, member_rsns, rank_history>>
          ELSE /\ members' = members \o NewMemberRows(payload)
               /\ member_rsns' = member_rsns \o NewRsnRows(payload, base)
               /\ rank_history' = rank_history \o NewHistoryRows(payload, base)
    /\ threads' = [threads EXCEPT ![t].pc = "returning"]
    /\ UNCHANGED <<ranks, wom_snapshots, group_snapshots, envVars, callVars>>

\* 8 A2 and B. the returning members, then the departed ones
ThreadWriteReturningDeparted(t) ==
    /\ threads[t].pc = "returning"
    /\ LET payload == threads[t].returning_members_payload
           reactivated == Reactivate(members, payload, Len(payload))
       IN /\ members' = Deactivate(reactivated, threads[t].departed_member_ids)
          /\ rank_history' = rank_history \o ReturningHistoryRows(payload)
    /\ threads' = [threads EXCEPT ![t].pc = "stats"]
    /\ UNCHANGED <<ranks, member_rsns, wom_snapshots, group_snapshots, envVars, callVars>>

\* 8 C. the snapshots, and the return of the report
ThreadWriteSnapshots(t) ==
    /\ threads[t].pc = "stats"
    /\ wom_snapshots' = wom_snapshots \o threads[t].snapshots_payload
    /\ threads' = [threads EXCEPT ![t].pc = "done"]
    /\ UNCHANGED <<ranks, members, member_rsns, rank_history, group_snapshots,
                   envVars, callVars>>

\* Populated stores with rank ids 10 and 11, and an empty rename feed.
InitOverlap ==
    \E w \in {x \in Worlds : x.feed = <<>> /\ x.store = MainStore} : InitCall(w, 0, NoneArg)

NextOverlap ==
    \E t \in ThreadIds :
        \/ ThreadStart(t)
        \/ ThreadFetch(t)
        \/ ThreadGroupSnapshot(t)
        \/ ThreadDiff(t)
        \/ ThreadWriteNewMembers(t)
        \/ ThreadWriteReturningDeparted(t)
        \/ ThreadWriteSnapshots(t)

SpecOverlap == InitOverlap /\ [][NextOverlap]_vars

\* Both calls are inside run_sync.
Overlapping == \A t \in ThreadIds : threads[t].pc \notin {"idle", "done"}

\* C17: the calls of run_sync started by the scheduled sync and by /syncclan
\* never overlap, so that no roster name gets a member inserted for it by
\* both of them.
C17_RunsSerialized ==
    /\ ~Overlapping
    /\ \A i, j \in DOMAIN member_rsns :
          (i /= j /\ i > Len(store0.member_rsns) /\ j > Len(store0.member_rsns))
              => member_rsns[i].rsn /= member_rsns[j].rsn

\* ------------------------------------------------------------------- C18
\* The Active members none of whose aliases in the alias map is a name of the
\* roster.
UnreachableActive(mem, map, wm) ==
    {m \in DOMAIN mem :
        /\ mem[m].status = "Active"
        /\ \A n \in DOMAIN map : map[n].member_id = m => n \notin DOMAIN wm}

\* The members a step turns from Active to Inactive.
TurnedInactive ==
    {m \in DOMAIN members : members[m].status = "Active" /\ members'[m].status = "Inactive"}

\* C18: the members classified Departed are exactly the Active members none
\* of whose aliases in the alias map (primary or not, after the renames)
\* is in the roster; the update of step 8 B sets exactly them Inactive, and
\* no other step sets a member Inactive.
C18_DepartedExactly ==
    [][/\ pc = "diff" =>
            departed_member_ids' = UnreachableActive(members, db_rsn_map_normalized, wom_members)
       /\ (pc = "departed" /\ faults' = faults) => TurnedInactive = departed_member_ids
       /\ (pc /= "departed" \/ faults' /= faults) => TurnedInactive = {}]_vars

\* C18 witness: a completed live run that classified a member Departed and
\* set it Inactive, while a member that is in the roster through a
\* non-primary alias only stayed Active.
C18_Witness ==
    /\ Completed /\ ~dry_run
    /\ departed_member_ids /= {}
    /\ \A m \in departed_member_ids :
          store0.members[m].status = "Active" /\ members[m].status = "Inactive"
    /\ \E m \in AltOnlyMembers : members[m].status = "Active"

\* ------------------------------------------------------------------- C19
\* The member addressed by the old name of the event being processed.
AddressedMember ==
    Get(db_rsn_map_normalized, normalize_string(name_changes[change_idx].oldName),
        [member_id |-> None]).member_id

\* C19: processing a rename event O -> N, O an alias of member M, changes
\* only alias entries owned by M, in the store and in the in-memory alias
\* map: every map entry and every store row of another member stays as it
\* is, and a row added to the store is owned by M.
C19_RenameTouchesOnlyOwner ==
    [][(pc = "rename" /\ AddressedMember /= None) =>
          /\ \A n \in DOMAIN db_rsn_map_normalized :
                db_rsn_map_normalized[n].member_id /= AddressedMember =>
                    /\ n \in DOMAIN db_rsn_map_normalized'
                    /\ db_rsn_map_normalized'[n] = db_rsn_map_normalized[n]
          /\ \A i \in DOMAIN member_rsns :
                member_rsns[i].member_id /= AddressedMember => member_rsns'[i] = member_rsns[i]
          /\ \A i \in (DOMAIN member_rsns') \ (DOMAIN member_rsns) :
                member_rsns'[i].member_id = AddressedMember]_vars

\* ------------------------------------------------------------------- C20
\* A later call whose predecessor was a live call that processed the whole
\* rename feed with no statement raising.
ReplayingFeed == runs > MaxRuns /\ store0.group_snapshots >= 1 /\ pc = "rename"

\* C20: replaying a rename feed is a no-op: when a live run has applied every
\* event of the feed, the events of the same feed change no alias row and no
\* primary flag in a later run, and issue no store write.
C20_ReplayIsNoOp ==
    [][(ReplayingFeed /\ faults' = 0) =>
          (member_rsns' = member_rsns /\ writes' = writes)]_vars

\* ------------------------------------------------------------------- C21
\* The event being processed is a revert in a live run: its old name is the
\* member's primary alias, in the map and in the store, and its new name is a
\* non-primary alias of the same member.
RevertOfPrimary ==
    /\ pc = "rename" /\ ~dry_run
    /\ RenameBranch(db_rsn_map_normalized, name_changes[change_idx]) = "revert"
    /\ LET old == db_rsn_map_normalized[normalize_string(name_changes[change_idx].oldName)]
       IN /\ old.is_primary
          /\ \E i \in PrimaryRows(member_rsns, old.member_id) :
                member_rsns[i].rsn = old.original_rsn

\* C21: a revert O -> N in a live run (O the member's primary alias, N one of
\* its non-primary aliases) sets O non-primary and N primary, creates no alias
\* row and leaves the member with exactly one primary alias; when a store
\* update raises, the alias map is left as it was and the error is reported.
C21_RevertSwapsPrimary ==
    [][RevertOfPrimary =>
         LET ch == name_changes[change_idx]
             old == db_rsn_map_normalized[normalize_string(ch.oldName)]
             new == db_rsn_map_normalized[normalize_string(ch.newName)]
             m == old.member_id
         IN IF faults' = faults
            THEN /\ Len(member_rsns') = Len(member_rsns)
                 /\ Cardinality(PrimaryRows(member_rsns', m)) = 1
                 /\ \A i \in DOMAIN member_rsns :
                       /\ (member_rsns[i].member_id = m /\ member_rsns[i].rsn = old.original_rsn)
                             => ~member_rsns'[i].is_primary
                       /\ (member_rsns[i].member_id = m /\ member_rsns[i].rsn = new.original_rsn)
                             => member_rsns'[i].is_primary
                       /\ member_rsns[i].member_id /= m => member_rsns'[i] = member_rsns[i]
                 /\ ~db_rsn_map_normalized'[normalize_string(ch.oldName)].is_primary
                 /\ db_rsn_map_normalized'[normalize_string(ch.newName)].is_primary
            ELSE /\ db_rsn_map_normalized' = db_rsn_map_normalized
                 /\ report_lines'[Len(report_lines')] = Line("error_swap_primary", 0)]_vars

\* ------------------------------------------------------------------- C22
\* C22: in a live force run with no statement raising, the forced updates
\* give every member with a rank mismatch the local rank of the roster's
\* label and append exactly one rank-history row for it, from the member's
\* old rank to that rank, whatever the number of mismatches.
C22_ForceResolvesMismatches ==
    [][(pc = "force" /\ force_run /\ ~dry_run /\ faults' = 0) =>
          LET appended == SubSeq(rank_history', Len(rank_history) + 1, Len(rank_history'))
          IN \A i \in DOMAIN report_rank_mismatches :
              LET r == report_rank_mismatches[i]
                  m == db_rsn_map_normalized[normalize_string(r.rsn)].member_id
                  mine == {j \in DOMAIN appended : appended[j].member_id = m}
              IN /\ members'[m].current_rank_id = RankIdOf(ranks_map_normalized, r.wom_rank)
                 /\ Cardinality(mine) = 1
                 /\ \A j \in mine :
                       /\ appended[j].previous_rank_id = members[m].current_rank_id
                       /\ appended[j].new_rank_id = members'[m].current_rank_id]_vars

\* ------------------------------------------------------------------- C23
\* The write steps of a live run, in the order of the code.
WriteSteps == <<"new_members", "returning", "departed", "stats", "finish">>

\* The error line a write step appends when one of its statements raises.
StepErrorLine ==
    [new_members |-> "ERROR processing new members",
     returning |-> "ERROR processing returning members",
     departed |-> "ERROR deactivating members",
     stats |-> "Error inserting snapshots"]

\* The step has something to write.
StepHasWork ==
    [new_members |-> new_members_payload /= <<>>,
     returning |-> returning_members_payload /= <<>>,
     departed |-> departed_member_ids /= {},
     stats |-> snapshots_payload /= <<>>]

\* C23: in a live run that passes the gate, every write step is followed by
\* the next one whether or not it raised; a step that has something to write
\* issues its write whatever happened in the steps before it, and a step that
\* raises appends its error line to the report.
C23_WriteStepsIndependent ==
    [][\A k \in 1..4 :
          pc = WriteSteps[k] =>
              /\ pc' = WriteSteps[k + 1]
              /\ StepHasWork[pc] => writes' > writes
              /\ faults' > faults =>
                    report_lines'[Len(report_lines')] = Line(StepErrorLine[pc], 0)]_vars

\* C23 witness: a completed live run in which the insert of the new members
\* raised and the departed members were deactivated all the same.
C23_Witness ==
    /\ Completed /\ ~dry_run
    /\ HasLine("ERROR processing new members")
    /\ HasLine("deactivation_complete")
    /\ \E m \in departed_member_ids :
          store0.members[m].status = "Active" /\ members[m].status = "Inactive"

\* ------------------------------------------------------------------- C24
\* The groups of store writes of a live run past the gate, by the program
\* position that issues them: 7, 8 A, 8 A2, 8 B, 8 C.
WriteGroups == <<"force", "new_members", "returning", "departed", "stats">>

\* The groups whose writes a step shows in the store.
GroupsWritten ==
    {k \in 1..5 :
        CASE k = 1 -> \E m \in DOMAIN members :
                          /\ members'[m].status = members[m].status
                          /\ members'[m].current_rank_id /= members[m].current_rank_id
          [] k = 2 -> Len(members') > Len(members)
          [] k = 3 -> \E m \in DOMAIN members :
                          members[m].status = "Inactive" /\ members'[m].status = "Active"
          [] k = 4 -> TurnedInactive /= {}
          [] k = 5 -> wom_snapshots' /= wom_snapshots}

\* C24: in a live run that passes the gate the store writes come in the
\* order forced rank updates, new members, returning members, departed
\* members, snapshots: the writes of a group are issued at that group's
\* position only, and the positions follow one another in this order.
C24_WriteOrder ==
    [][/\ \A k \in GroupsWritten : pc = WriteGroups[k]
       /\ \A k \in 1..5 :
             pc = WriteGroups[k] =>
                 pc' \in {WriteGroups[j] : j \in (k + 1)..5} \cup {"finish", "dry_summary"}]_vars

\* C24 witness: a completed live force run that wrote forced rank updates,
\* new members and snapshots.
C24_Witness ==
    /\ Completed /\ ~dry_run /\ force_run /\ faults = 0
    /\ report_auto_rank_updates /= <<>>
    /\ \E m \in DOMAIN store0.members :
          members[m].current_rank_id /= store0.members[m].current_rank_id
    /\ Len(members) > Len(store0.members)
    /\ Len(wom_snapshots) > Len(store0.wom_snapshots)

\* ------------------------------------------------------------------- C25
\* The roster names without an alias: normalized usernames of the
\* memberships that are no key of the alias map.
RosterNamesWithoutAlias ==
    {normalize_string(memberships[i].username) : i \in DOMAIN memberships}
        \ DOMAIN db_rsn_map_normalized

\* C25: the roster entries classified New are exactly those whose normalized
\* name is no key of the alias map after the renames; step 8 A of a live run,
\* when no statement raises, creates for each of them exactly one Active
\* member, one primary alias row carrying the roster's display name, and one
\* rank-history row with no previous rank whose new rank is the member's
\* current rank, and creates nothing else.
C25_NewMembersCreatedOnce ==
    [][/\ pc = "diff" =>
            /\ new_normalized_rsns' = RosterNamesWithoutAlias
            /\ Len(new_members_payload') = Cardinality(RosterNamesWithoutAlias)
       /\ (pc = "new_members" /\ faults' = faults) =>
            LET created == (DOMAIN members') \ (DOMAIN members)
                rsn_rows == (DOMAIN member_rsns') \ (DOMAIN member_rsns)
                history == (DOMAIN rank_history') \ (DOMAIN rank_history)
            IN /\ Cardinality(created) = Cardinality(new_normalized_rsns)
               /\ Cardinality(rsn_rows) = Cardinality(new_normalized_rsns)
               /\ Cardinality(history) = Cardinality(new_normalized_rsns)
               /\ \A m \in created : members'[m].status = "Active"
               /\ \A n \in new_normalized_rsns :
                     \E m \in created :
                        /\ \E i \in rsn_rows :
                              /\ member_rsns'[i] = Rsn(wom_members[n].rsn, m, TRUE)
                              /\ \E k \in DOMAIN memberships :
                                    memberships[k].username = member_rsns'[i].rsn
                        /\ \E j \in history :
                              rank_history'[j] =
                                  [member_id |-> m, previous_rank_id |-> None,
                                   new_rank_id |-> members'[m].current_rank_id]]_vars

\* C25 witness: a completed live run on a populated store, no statement
\* raising, that created a member for a roster name without an alias.
C25_Witness ==
    /\ Completed /\ ~dry_run /\ faults = 0
    /\ store0.members /= <<>>
    /\ new_normalized_rsns /= {}
    /\ Len(members) = Len(store0.members) + Cardinality(new_normalized_rsns)
    /\ Len(member_rsns) > Len(store0.member_rsns)

\* ------------------------------------------------------------------- C26
\* C26: after a live run that passes the gate with no statement raising,
\* every member that was Inactive and whose primary alias (in the alias map
\* and in the store) is a roster name is Active with the local rank of the
\* roster's label, whatever that label, and one rank-history row from its
\* stored rank to that rank has been appended.
C26_ReturningReactivated ==
    (Completed /\ ~dry_run /\ faults = 0 /\ runs = 1) =>
        \A n \in (DOMAIN wom_members) \cap (DOMAIN db_rsn_map_normalized) :
            LET m == db_rsn_map_normalized[n].member_id
                rows == {j \in (DOMAIN rank_history) \ (DOMAIN store0.rank_history) :
                            rank_history[j].member_id = m}
            IN (/\ db_rsn_map_normalized[n].is_primary
                /\ \E i \in PrimaryRows(member_rsns, m) : normalize_string(member_rsns[i].rsn) = n
                /\ m \in DOMAIN store0.members
                /\ store0.members[m].status = "Inactive")
               => /\ members[m].status = "Active"
                  /\ members[m].current_rank_id \in DOMAIN ranks
                  /\ normalize_string(ranks[members[m].current_rank_id].name)
                        = normalize_string(wom_members[n].rank)
                  /\ Cardinality(rows) = 1
                  /\ \A j \in rows :
                        /\ rank_history[j].previous_rank_id = store0.members[m].current_rank_id
                        /\ rank_history[j].new_rank_id = members[m].current_rank_id

\* ------------------------------------------------------------------- C27
\* The ranks of a table whose name normalizes like a label.
RanksLabelled(rs, label) ==
    {r \in DOMAIN rs : normalize_string(rs[r].name) = normalize_string(label)}

\* C27: after a live run that passes the gate with no statement raising,
\* every rank label of a roster entry has a local rank; a label without a
\* rank before the run has exactly one, of type 'Other'; and no member is
\* stored without a current rank.
C27_EveryLabelHasRank ==
    (Completed /\ ~dry_run /\ faults = 0 /\ runs = 1) =>
        /\ \A i \in DOMAIN memberships :
              LET label == memberships[i].role
              IN /\ RanksLabelled(ranks, label) /= {}
                 /\ RanksLabelled(store0.ranks, label) = {} =>
                       /\ Cardinality(RanksLabelled(ranks, label)) = 1
                       /\ \A r \in RanksLabelled(ranks, label) : ranks[r].rank_type = "Other"
        /\ \A m \in DOMAIN members : members[m].current_rank_id /= None

\* ------------------------------------------------------------------- C28
\* C28: in a run that is not halted, the number of departed members written
\* in the report ('Would deactivate N members', 'Deactivating N departed
\* members') is the number of members classified Departed, and the numbers
\* of new and returning members are the sizes of those classifications.
C28_ReportCounts ==
    \A i \in DOMAIN report_lines :
        LET l == report_lines[i]
        IN /\ l.t \in {"would_deactivate", "deactivating"}
                 => l.n = Cardinality(departed_member_ids)
           /\ l.t \in {"would_add", "adding_new_members"}
                 => l.n = Cardinality(new_normalized_rsns)
           /\ l.t \in {"would_reactivate", "reactivating"}
                 => l.n = Len(returning_members_payload)

\* ------------------------------------------------------------------- C29
\* The roster entry's cached experience is present and equals the last
\* persisted experience of the Active member its name maps to.
CachedUnchanged(n) ==
    /\ n \in DOMAIN db_rsn_map_normalized
    /\ db_rsn_map_normalized[n].member_id \in DOMAIN db_member_data
    /\ wom_members[n].stale_exp /= None
    /\ wom_members[n].stale_exp =
          db_member_data[db_rsn_map_normalized[n].member_id].latest_db_xp

\* The call of fetch_player_snapshots returns once the service has answered
\* each request.
SpecSnapshots == Spec /\ WF_vars(FetchPlayerSnapshots)

C30_MapAgreesWithStore ==
    (pc \in {"snapshots", "diff"} /\ ~dry_run /\ faults = 0 /\ runs = 1) =>
        \A n \in DOMAIN db_rsn_map_normalized :
            LET e == db_rsn_map_normalized[n]
                rows == {i \in DOMAIN member_rsns : member_rsns[i].rsn = e.original_rsn}
            IN /\ rows /= {}
               /\ \A i \in rows :
                     /\ member_rsns[i].member_id = e.member_id
                     /\ member_rsns[i].is_primary = e.is_primary

====
